---- MODULE Spec2Model ----
(***************************************************************************)
(* The PR-generation command of otak-committer (src/commands/generatePR.ts  *)
(* and its registration in src/extension.ts) as a state machine.           *)
(*                                                                         *)
(* Every invocation of the command starts one run of generatePR.  A run is *)
(* an async function: it is suspended at each `await` and resumed by the   *)
(* event loop, so the steps of several runs interleave at those points.    *)
(* pc[r] names the await a run is suspended at; one action resumes it and  *)
(* executes the synchronous code up to the next await.                     *)
(*                                                                         *)
(* The editor's preview tabs and the preview directory are shared by all   *)
(* runs.  A tab or a file is identified by the run that created it (the    *)
(* file names of generateRandomFileName are distinct per call).            *)
(***************************************************************************)
EXTENDS Integers, Sequences, FiniteSets, TLC

\* Number of invocations of the otak-committer.generatePR command.
MaxRuns == 2
\* Issue numbers the repository can offer for selection: 1..MaxIssue.
MaxIssue == 1

Runs == 1..MaxRuns
IssueNumbers == 1..MaxIssue

VARIABLES
    pc,           \* pc[r]: the await run r is suspended at ("idle" before, "done" after)
    issueNumber,  \* generatePR.ts:97   let issueNumber (0 is undefined)
    prType,       \* generatePR.ts:181  prType.value: "unset", TRUE (draft) or FALSE
    previewFile,  \* generatePR.ts:81   let previewFile (TRUE when it holds a handle)
    calls,        \* the createPullRequest requests run r has sent, in order
    resps,        \* the outcomes of those requests, in order
    result,       \* generatePR.ts:204  the record withProgress returned (number 0: none)
    msgs,         \* the notifications run r has shown to the user, in order
    cleanups,     \* closePreviewTabs + cleanupPreviewFiles pairs generatePR completed
    ev,           \* the events of run r (which branch each step took)
    previewContent, \* generatePR.ts:170  let previewContent (<<>> before it is built)
    tabs,         \* open Markdown preview tabs, by the run whose file they show
    files,        \* files in PREVIEW_DIR, by the run that wrote them
    dirExists,    \* whether PREVIEW_DIR exists
    started,      \* number of command invocations so far
    prCount,      \* pull requests the repository host has created so far
    \* The commit-message command (vscode-scm-comitter.generateMessage):
    cpc,          \* the await the command handler is suspended at
    repositories, \* number of repositories the Git extension reports
    repository,   \* git.repositories[0]: index, working tree, input box, commits
    config,       \* the configuration object read at the start: has an API key
    apiKey,       \* the setting scmComitter.openaiApiKey is configured
    diff,         \* let diff: the staged diff last fetched, as the paths it covers
    cmsgs,        \* the notifications the command has shown, in order
    requests,     \* the diffs of the completion requests sent, in order
    \* The settings of otakCommitter:
    language,     \* the stored value of otakCommitter.language ("unset": none)
    configured,   \* the user has chosen a language
    activated,    \* extension.ts:9  activate has run
    prLanguage,   \* generatePR.ts:138  const language, as last read ("none" before)
    \* IssueGeneratorService.generatePreview:
    ipc,          \* the await generatePreview is suspended at
    params,       \* its argument: the description and whether files were given
    irequests,    \* the completion requests it has sent, in order
    iresponses,   \* the outcomes of those requests, in order
    ishown,       \* the errors shown to the user, in order
    preview,      \* the value it resolved with
    rejection     \* the message of the error it rejected with ("none": none)

runVars == <<pc, issueNumber, prType, previewFile, calls, resps, result, msgs, cleanups, ev,
             previewContent>>
envVars == <<tabs, files, dirExists, prCount>>
commitVars == <<cpc, repositories, repository, config, apiKey, diff, cmsgs, requests>>
settingVars == <<language, configured, activated, prLanguage>>
issueVars == <<ipc, params, irequests, iresponses, ishown, preview, rejection>>
vars == <<runVars, envVars, started, commitVars, settingVars, issueVars>>

-----------------------------------------------------------------------------
(* Values *)

\* generatePR.ts:85 and 130: the branch pair chosen once per run.
Branches(r) == [base |-> "main", compare |-> <<"feature", r>>]

\* Texts are sequences of words; a word is a name with a number (the run that
\* generated it, or the issue it refers to).
Word(name, number) == <<name, number>>

\* generatePR.ts:150: the generated title and body (openai.generatePRContent).
GeneratedPR(r) == [title |-> <<Word("title", r)>>, body |-> <<Word("body", r)>>]

\* Description without the 'Resolves' line of generatePR.ts:198-199.
DescriptionWithoutIssue(r, issue) == GeneratedPR(r).body

\* generatePR.ts:196-200: the description sent to GitHub.
Description(r, issue) ==
    IF issue # 0 THEN GeneratedPR(r).body \o <<Word("Resolves", issue)>>
                 ELSE GeneratedPR(r).body

\* generatePR.ts:170-173: the content of the preview file: title, rule, body
\* and, with an issue, the 'Resolves' line.
PreviewContent(r, issue) ==
    GeneratedPR(r).title \o <<Word("---", 0)>> \o GeneratedPR(r).body
        \o (IF issue # 0 THEN <<Word("Resolves", issue)>> ELSE <<>>)

Msg(kind, number) == [kind |-> kind, number |-> number]

NoRecord == [number |-> 0, draft |-> FALSE]

\* Errors, by what generatePR looks at: the message.  (Whether an error carries
\* response.errors, generatePR.ts:303, only changes the detail that follows
\* 'Failed to generate PR: ' in the message shown.)
Err(message) == [message |-> message]
RemoteErrors == {Err("Other")}
CreateErrors == {Err("Other"), Err("DraftUnsupported")}

-----------------------------------------------------------------------------
(* Decisions of generatePR, one operator per condition of the source *)

\* CatchKind without the test of generatePR.ts:295.
CatchKindGenericOnly(e) == "Failed"

\* generatePR.ts:294-309: the message the outer catch shows for an error.
CatchKind(e) ==
    IF e.message = "NoChanges" THEN "NoChanges" ELSE "Failed"

\* NeedsCleanup without the test of generatePR.ts:312.
NeedsCleanupAlways(pf) == TRUE

\* NeedsCleanup with the finally block's cleanup left out.
NeedsCleanupNever(pf) == FALSE

\* generatePR.ts:312: the finally block cleans up only while previewFile is set.
NeedsCleanup(pf) == pf

\* PreviewMissing with the test of generatePR.ts:175 left out.
PreviewMissingIgnored(handle) == FALSE

\* generatePR.ts:175: the run goes on only with a preview handle.
PreviewMissing(handle) == ~handle

\* ContentMissing with the test of generatePR.ts:159 left out.
ContentMissingIgnored(content) == FALSE

\* generatePR.ts:159: an empty generation result ends the run.
ContentMissing(content) == ~content

\* FirstDiffRejects with the test of Validate applied to the first diff too.
FirstDiffRejectsEmpty(nFiles) == nFiles = 0

\* generatePR.ts:130: the file list of the first diff is not tested.
FirstDiffRejects(nFiles) == FALSE

\* ValidateRejects with the test of generatePR.ts:212 left out.
ValidateRejectsNothing(nFiles) == FALSE

\* generatePR.ts:212: Validate rejects an empty file list.
ValidateRejects(nFiles) == nFiles = 0

\* HasNumber testing only that a record came back.
HasNumberAnyRecord(pr) == TRUE

\* generatePR.ts:235, 259, 271: the truthiness of pr.number (0 stands for a
\* missing record or a record without a number).
HasNumber(pr) == pr.number # 0

\* generatePR.ts:235 and 259: a record without a number is no pull request.
InvalidRecord(pr) == ~HasNumber(pr)

\* ShowsIssuePick without the test of generatePR.ts:100.
ShowsIssuePickAlways(nIssues) == TRUE

\* generatePR.ts:100: the issue quick pick is shown for a non-empty list.
ShowsIssuePick(nIssues) == nIssues > 0

\* FallbackTaken without the prType.value conjunct of generatePR.ts:244.
FallbackTakenAnyType(draft, e) == e.message = "DraftUnsupported"

\* generatePR.ts:244: the one error that leads to the fallback call.
FallbackTaken(draft, e) == draft /\ e.message = "DraftUnsupported"

\* generatePR.ts:226-233: the first creation request.
FirstRequest(r, issue, draft) ==
    [base |-> Branches(r).base, compare |-> Branches(r).compare,
     title |-> GeneratedPR(r).title, body |-> Description(r, issue),
     issueNumber |-> issue, draft |-> draft]

\* FallbackRequest with the issue number dropped from the request and its body.
FallbackRequestNoIssue(r, issue) == FirstRequest(r, 0, FALSE)

\* generatePR.ts:250-257: the fallback creation request.
FallbackRequest(r, issue) ==
    [base |-> Branches(r).base, compare |-> Branches(r).compare,
     title |-> GeneratedPR(r).title, body |-> Description(r, issue),
     issueNumber |-> issue, draft |-> FALSE]

\* CleanupErrorCaught without the try/catch of generatePR.ts:313-318.
CleanupErrorUncaught == FALSE

\* generatePR.ts:313-318: an error of the cleanup in the finally block is
\* caught and logged.
CleanupErrorCaught == TRUE

\* ClearedPreviewFile with the assignment of generatePR.ts:286 left out.
KeptPreviewFile == TRUE

\* generatePR.ts:286: the reference is cleared after a successful creation.
ClearedPreviewFile == FALSE

-----------------------------------------------------------------------------
(* Building blocks of the actions *)

Goto(r, label) == pc' = [pc EXCEPT ![r] = label]
Show(r, kind, number) == msgs' = [msgs EXCEPT ![r] = Append(@, Msg(kind, number))]
Note(r, e) == ev' = [ev EXCEPT ![r] = @ \cup {e}]

\* generatePR.ts:310-320: leaving the try block, with previewFile = pf.
Finally(r, pf) == Goto(r, IF NeedsCleanup(pf) THEN "fin_close" ELSE "done")

\* Return reporting an error, as if the run had thrown instead.
ReturnReporting(r) == Show(r, "Failed", 0) /\ Finally(r, previewFile[r])

\* A `return` inside the try block (generatePR.ts:87, 93, 123, 193).
Return(r) == UNCHANGED msgs /\ Finally(r, previewFile[r])

\* Throw with an outer catch that shows nothing.
ThrowSilently(r, e) == UNCHANGED msgs /\ Finally(r, previewFile[r])

\* An error reaching the outer catch (generatePR.ts:294-309).
Throw(r, e) == Show(r, CatchKind(e), 0) /\ Finally(r, previewFile[r])

\* OpenAIService.initialize without a usable credential: the service prompts
\* the user to configure it and yields no service (error taxonomy,
\* CredentialMissing).
CredentialPrompt(r) == Show(r, "ConfigurePrompt", 0)

GeneratePRInit ==
    /\ pc = [r \in Runs |-> "idle"]
    /\ issueNumber = [r \in Runs |-> 0]
    /\ prType = [r \in Runs |-> "unset"]
    /\ previewFile = [r \in Runs |-> FALSE]
    /\ calls = [r \in Runs |-> <<>>]
    /\ resps = [r \in Runs |-> <<>>]
    /\ result = [r \in Runs |-> NoRecord]
    /\ msgs = [r \in Runs |-> <<>>]
    /\ cleanups = [r \in Runs |-> 0]
    /\ ev = [r \in Runs |-> {}]
    /\ previewContent = [r \in Runs |-> <<>>]
    /\ tabs = {}
    /\ files = {}
    /\ dirExists = FALSE
    /\ started = 0
    /\ prCount = 0

\* The commit-message command at rest, with an empty repository.
CommitAtRest ==
    /\ cpc = "idle"
    /\ repositories = 1
    /\ repository = [staged |-> {}, working |-> {},
                     inputBox |-> [text |-> "", of |-> {}], commits |-> 0]
    /\ config = FALSE
    /\ apiKey = FALSE
    /\ diff = {}
    /\ cmsgs = <<>>
    /\ requests = <<>>

\* The settings once the extension is active with a language chosen.
SettingsAtRest ==
    /\ language = "english"
    /\ configured = TRUE
    /\ activated = TRUE
    /\ prLanguage = "none"

\* No issue preview requested.
IssueAtRest ==
    /\ ipc = "idle"
    /\ params = [description |-> <<>>, files |-> FALSE]
    /\ irequests = <<>>
    /\ iresponses = <<>>
    /\ ishown = <<>>
    /\ preview = [title |-> <<>>, body |-> <<>>]
    /\ rejection = "none"

Init == GeneratePRInit /\ CommitAtRest /\ SettingsAtRest /\ IssueAtRest

-----------------------------------------------------------------------------
(* extension.ts:50-52: the command handler starts a run and does not wait  *)
(* for it; nothing prevents an invocation while another run is suspended.  *)
Invoke(r) ==
    /\ started < MaxRuns
    /\ r = started + 1
    /\ pc[r] = "idle"
    /\ started' = started + 1
    /\ Goto(r, "selectBranches")
    /\ UNCHANGED <<issueNumber, prType, previewFile, calls, resps, result, msgs,
                   cleanups, ev, envVars, previewContent, commitVars, settingVars, issueVars>>

\* generatePR.ts:85-88
SelectBranches(r) ==
    /\ pc[r] = "selectBranches"
    /\ \/ Goto(r, "initGitHub") /\ UNCHANGED <<msgs, ev>>
       \/ Note(r, "cancelBranches") /\ Return(r)
    /\ UNCHANGED <<issueNumber, prType, previewFile, calls, resps, result,
                   cleanups, envVars, started, previewContent, commitVars, settingVars, issueVars>>

\* generatePR.ts:91-99: the client, then the getIssues request is sent.
InitGitHub(r) ==
    /\ pc[r] = "initGitHub"
    /\ \/ Goto(r, "getIssues") /\ Note(r, "sentGetIssues") /\ UNCHANGED msgs
       \/ Note(r, "noGitHubClient") /\ Return(r)
    /\ UNCHANGED <<issueNumber, prType, previewFile, calls, resps, result,
                   cleanups, envVars, started, previewContent, commitVars, settingVars, issueVars>>

\* generatePR.ts:99-113
GetIssues(r) ==
    /\ pc[r] = "getIssues"
    /\ \/ \E nIssues \in {0, 1} :
            /\ ev' = [ev EXCEPT ![r] = @ \cup (IF nIssues = 0 THEN {"noIssues"} ELSE {})]
            /\ Goto(r, IF ShowsIssuePick(nIssues) THEN "pickIssue" ELSE "gitInit")
            /\ UNCHANGED msgs
       \/ \E e \in RemoteErrors : Throw(r, e) /\ UNCHANGED ev
    /\ UNCHANGED <<issueNumber, prType, previewFile, calls, resps, result,
                   cleanups, envVars, started, previewContent, commitVars, settingVars, issueVars>>

\* generatePR.ts:107-121
PickIssue(r) ==
    /\ pc[r] = "pickIssue"
    /\ \/ \E n \in IssueNumbers : issueNumber' = [issueNumber EXCEPT ![r] = n]
       \/ UNCHANGED issueNumber
    /\ Goto(r, "gitInit")
    /\ UNCHANGED <<prType, previewFile, calls, resps, result, msgs,
                   cleanups, ev, envVars, started, previewContent, commitVars, settingVars, issueVars>>

\* generatePR.ts:121-127
GitInit(r) ==
    /\ pc[r] = "gitInit"
    /\ \/ Goto(r, "findTemplates") /\ UNCHANGED <<msgs, ev>>
       \/ Note(r, "noGitService") /\ Return(r)
    /\ UNCHANGED <<issueNumber, prType, previewFile, calls, resps, result,
                   cleanups, envVars, started, previewContent, commitVars, settingVars, issueVars>>

\* generatePR.ts:127-130
FindTemplates(r) ==
    /\ pc[r] = "findTemplates"
    /\ Goto(r, "fetchDiff")
    /\ Note(r, "sentDiff")
    /\ UNCHANGED <<issueNumber, prType, previewFile, calls, resps, result, msgs,
                   cleanups, envVars, started, previewContent, commitVars, settingVars, issueVars>>

\* generatePR.ts:130-133: the first diff; its file list is not looked at.
FetchDiff(r) ==
    /\ pc[r] = "fetchDiff"
    /\ \/ \E nFiles \in {0, 1} :
            /\ ev' = [ev EXCEPT ![r] = @ \cup (IF nFiles = 0 THEN {"firstDiffEmpty"} ELSE {})]
            /\ IF FirstDiffRejects(nFiles)
                 THEN Throw(r, Err("NoChanges"))
                 ELSE Goto(r, "openaiInit") /\ UNCHANGED msgs
       \/ \E e \in RemoteErrors : Throw(r, e) /\ UNCHANGED ev
    /\ UNCHANGED <<issueNumber, prType, previewFile, calls, resps, result,
                   cleanups, envVars, started, previewContent, commitVars, settingVars, issueVars>>

\* generatePR.ts:133-150
OpenAIInit(r) ==
    /\ pc[r] = "openaiInit"
    /\ \/ Goto(r, "generate") /\ Note(r, "sentCompletion") /\ UNCHANGED msgs
       \/ /\ Note(r, "noCompletionService")
          /\ CredentialPrompt(r)
          /\ Finally(r, previewFile[r])
    /\ UNCHANGED <<issueNumber, prType, previewFile, calls, resps, result,
                   cleanups, envVars, started, previewContent, commitVars, settingVars, issueVars>>

\* generatePR.ts:143-174: the completion returns; on success the preview
\* content is built and showMarkdownPreview runs up to its first await
\* (the stat of cleanupPreviewFiles, line 21).
Generate(r) ==
    /\ pc[r] = "generate"
    /\ \/ \E content \in BOOLEAN :
            /\ ev' = [ev EXCEPT ![r] = @ \cup (IF content THEN {} ELSE {"completionEmpty"})]
            /\ IF ContentMissing(content)
                 THEN /\ Show(r, "GenFailed", 0)
                      /\ Finally(r, previewFile[r])
                      /\ UNCHANGED previewContent
                 ELSE /\ Goto(r, "smp_stat")
                      /\ previewContent' = [previewContent EXCEPT
                                              ![r] = PreviewContent(r, issueNumber[r])]
                      /\ UNCHANGED msgs
       \/ /\ Note(r, "completionThrew")
          /\ Show(r, "GenError", 0)
          /\ Finally(r, previewFile[r])
          /\ UNCHANGED previewContent
    /\ UNCHANGED <<issueNumber, prType, previewFile, calls, resps, result,
                   cleanups, envVars, started, commitVars, settingVars, issueVars>>

-----------------------------------------------------------------------------
(* cleanupPreviewFiles (generatePR.ts:19-31), called from three places.     *)
(* Both of its awaits are steps; every error is swallowed by its catch.    *)

\* generatePR.ts:21-22: stat resolves when the directory exists; otherwise it
\* rejects with FileNotFound, which the catch ignores, and the function returns.
StatFinds(exists) == exists

\* generatePR.ts:23: the recursive delete removes the directory and every file in it.
FilesAfterDelete(fs) == {}

CleanupStat(r, at, toDelete, toReturn) ==
    /\ pc[r] = at
    /\ Goto(r, IF StatFinds(dirExists) THEN toDelete ELSE toReturn)

CleanupDelete(r, at, toReturn) ==
    /\ pc[r] = at
    /\ files' = FilesAfterDelete(files)
    /\ dirExists' = FALSE
    /\ Goto(r, toReturn)

\* Tabs of the user's own, next to the previews of the runs: a Markdown
\* preview of an unrelated document and a text editor.
UserPreview == 0
UserEditor == MaxRuns + 1
UserTabs == {UserPreview, UserEditor}

\* generatePR.ts:43-46: the tabs closePreviewTabs selects: webview tabs whose
\* label contains 'Preview'.  The Markdown preview of any document is one.
MatchesFilter(t) == t # UserEditor

\* closePreviewTabs (generatePR.ts:40-49): every webview tab whose label
\* contains 'Preview' is closed; the close requests are issued synchronously.
TabsAfterClose(ts) == {t \in ts : ~MatchesFilter(t)}

-----------------------------------------------------------------------------
(* showMarkdownPreview (generatePR.ts:51-78) *)

\* generatePR.ts:74-77 and 175-178: any error inside showMarkdownPreview is
\* caught, undefined is returned, and generatePR reports and returns.
SmpFail(r) ==
    /\ Note(r, "previewFailed")
    /\ IF PreviewMissing(FALSE)
         THEN Show(r, "PreviewFailed", 0) /\ Finally(r, previewFile[r])
         ELSE UNCHANGED msgs /\ Goto(r, "selectPRType")

\* generatePR.ts:54 (21): stat of PREVIEW_DIR
SmpStat(r) ==
    /\ CleanupStat(r, "smp_stat", "smp_delete", "smp_mkdir")
    /\ UNCHANGED <<issueNumber, prType, previewFile, calls, resps, result, msgs,
                   cleanups, ev, envVars, started, previewContent, commitVars, settingVars, issueVars>>

\* generatePR.ts:54 (23): delete of PREVIEW_DIR
SmpDelete(r) ==
    /\ CleanupDelete(r, "smp_delete", "smp_mkdir")
    /\ UNCHANGED <<issueNumber, prType, previewFile, calls, resps, result, msgs,
                   cleanups, ev, tabs, prCount, started, previewContent, commitVars, settingVars, issueVars>>

\* generatePR.ts:55-61: createDirectory returns; the file name is chosen and
\* closePreviewTabs issues its close requests.
SmpMkdir(r) ==
    /\ pc[r] = "smp_mkdir"
    /\ \/ /\ dirExists' = TRUE
          /\ tabs' = TabsAfterClose(tabs)
          /\ Goto(r, "smp_close")
          /\ UNCHANGED <<msgs, ev>>
       \/ SmpFail(r) /\ UNCHANGED <<dirExists, tabs>>
    /\ UNCHANGED <<issueNumber, prType, previewFile, calls, resps, result,
                   cleanups, files, prCount, started, previewContent, commitVars, settingVars, issueVars>>

\* generatePR.ts:61-65: the closes are done; writeFile is sent.
SmpClose(r) ==
    /\ pc[r] = "smp_close"
    /\ Goto(r, "smp_write")
    /\ UNCHANGED <<issueNumber, prType, previewFile, calls, resps, result, msgs,
                   cleanups, ev, envVars, started, previewContent, commitVars, settingVars, issueVars>>

\* generatePR.ts:65-68: writeFile returns (it creates missing parent directories).
SmpWrite(r) ==
    /\ pc[r] = "smp_write"
    /\ \/ /\ files' = files \cup {r}
          /\ dirExists' = TRUE
          /\ Note(r, "wrote")
          /\ Goto(r, "smp_open")
          /\ UNCHANGED msgs
       \/ SmpFail(r) /\ UNCHANGED <<files, dirExists>>
    /\ UNCHANGED <<issueNumber, prType, previewFile, calls, resps, result,
                   cleanups, tabs, prCount, started, previewContent, commitVars, settingVars, issueVars>>

\* generatePR.ts:68-71: openTextDocument returns; it fails when the file is gone.
SmpOpen(r) ==
    /\ pc[r] = "smp_open"
    /\ \/ r \in files /\ Goto(r, "smp_show") /\ UNCHANGED <<msgs, ev>>
       \/ SmpFail(r)
    /\ UNCHANGED <<issueNumber, prType, previewFile, calls, resps, result,
                   cleanups, envVars, started, previewContent, commitVars, settingVars, issueVars>>

\* generatePR.ts:71-181: markdown.showPreview returns; with the handle the
\* PR-type quick pick is shown.
SmpShow(r) ==
    /\ pc[r] = "smp_show"
    /\ \/ /\ tabs' = tabs \cup {r}
          /\ previewFile' = [previewFile EXCEPT ![r] = TRUE]
          /\ Note(r, "shown")
          /\ IF PreviewMissing(TRUE)
               THEN Show(r, "PreviewFailed", 0) /\ Finally(r, TRUE)
               ELSE UNCHANGED msgs /\ Goto(r, "selectPRType")
       \/ SmpFail(r) /\ UNCHANGED <<tabs, previewFile>>
    /\ UNCHANGED <<issueNumber, prType, calls, resps, result,
                   cleanups, files, dirExists, prCount, started, previewContent, commitVars, settingVars, issueVars>>

-----------------------------------------------------------------------------
(* generatePR, from the PR-type selection on *)

\* generatePR.ts:181-211: the choice; then withProgress starts and the
\* Validate diff request is sent.
SelectPRType(r) ==
    /\ pc[r] = "selectPRType"
    /\ \/ \E draft \in BOOLEAN :
            /\ prType' = [prType EXCEPT ![r] = draft]
            /\ Goto(r, "validate")
            /\ UNCHANGED <<msgs, ev>>
       \/ Note(r, "cancelPRType") /\ Return(r) /\ UNCHANGED prType
    /\ UNCHANGED <<issueNumber, previewFile, calls, resps, result,
                   cleanups, envVars, started, previewContent, commitVars, settingVars, issueVars>>

\* generatePR.ts:211-233: the re-fetched diff returns; with a non-empty file
\* list the first createPullRequest request is sent.
Validate(r) ==
    /\ pc[r] = "validate"
    /\ \/ \E nFiles \in {0, 1} :
            /\ ev' = [ev EXCEPT ![r] = @ \cup (IF nFiles = 0 THEN {"validateEmpty"} ELSE {})]
            /\ IF ValidateRejects(nFiles)
                 THEN Throw(r, Err("NoChanges")) /\ UNCHANGED calls
                 ELSE /\ calls' = [calls EXCEPT ![r] =
                                     Append(@, FirstRequest(r, issueNumber[r], prType[r]))]
                      /\ Goto(r, "create1")
                      /\ UNCHANGED msgs
       \/ \E e \in RemoteErrors : Throw(r, e) /\ UNCHANGED <<calls, ev>>
    /\ UNCHANGED <<issueNumber, prType, previewFile, resps, result,
                   cleanups, envVars, started, previewContent, commitVars, settingVars, issueVars>>

\* The repository host answers a creation request: a record with a fresh
\* number, a response without a number, or an error.
Created(req) == [kind |-> "record", number |-> prCount + 1, draft |-> req.draft]
Unnumbered(req) == [kind |-> "record", number |-> 0, draft |-> req.draft]
Failed(e) == [kind |-> "error", error |-> e]

\* generatePR.ts:239, 263, 268-273 and 287-289: the record is returned through
\* withProgress and tested once more; with a number closePreviewTabs is
\* called, without one the run throws 'No PR details received'.
Accept(r, pr) ==
    /\ result' = [result EXCEPT ![r] = [number |-> pr.number, draft |-> pr.draft]]
    /\ IF HasNumber(pr)
         THEN Goto(r, "ok_close") /\ UNCHANGED msgs
         ELSE Throw(r, Err("NoDetails"))

\* generatePR.ts:226-248: the first createPullRequest returns.
Create1(r) ==
    /\ pc[r] = "create1"
    /\ LET req == calls[r][1] IN
       \/ /\ resps' = [resps EXCEPT ![r] = Append(@, Created(req))]
          /\ prCount' = prCount + 1
          /\ IF InvalidRecord(Created(req))
               THEN Throw(r, Err("InvalidPR")) /\ UNCHANGED result
               ELSE Accept(r, Created(req))
       \/ /\ resps' = [resps EXCEPT ![r] = Append(@, Unnumbered(req))]
          /\ UNCHANGED prCount
          /\ IF InvalidRecord(Unnumbered(req))
               THEN Throw(r, Err("InvalidPR")) /\ UNCHANGED result
               ELSE Accept(r, Unnumbered(req))
       \/ \E e \in CreateErrors :
            /\ resps' = [resps EXCEPT ![r] = Append(@, Failed(e))]
            /\ UNCHANGED <<prCount, result>>
            /\ IF FallbackTaken(prType[r], e)
                 THEN Show(r, "DraftFallbackInfo", 0) /\ Goto(r, "fallbackNotify")
                 ELSE Throw(r, e)
    /\ UNCHANGED <<issueNumber, prType, previewFile, calls,
                   cleanups, ev, tabs, files, dirExists, started, previewContent, commitVars, settingVars, issueVars>>

\* generatePR.ts:246-257: the information message is dismissed; the fallback
\* request is sent.
FallbackNotify(r) ==
    /\ pc[r] = "fallbackNotify"
    /\ calls' = [calls EXCEPT ![r] = Append(@, FallbackRequest(r, issueNumber[r]))]
    /\ Goto(r, "create2")
    /\ UNCHANGED <<issueNumber, prType, previewFile, resps, result, msgs,
                   cleanups, ev, envVars, started, previewContent, commitVars, settingVars, issueVars>>

\* generatePR.ts:250-266: the fallback createPullRequest returns.
Create2(r) ==
    /\ pc[r] = "create2"
    /\ LET req == calls[r][2] IN
       \/ /\ resps' = [resps EXCEPT ![r] = Append(@, Created(req))]
          /\ prCount' = prCount + 1
          /\ IF InvalidRecord(Created(req))
               THEN Throw(r, Err("InvalidRegularPR")) /\ UNCHANGED result
               ELSE Accept(r, Created(req))
       \/ /\ resps' = [resps EXCEPT ![r] = Append(@, Unnumbered(req))]
          /\ UNCHANGED prCount
          /\ IF InvalidRecord(Unnumbered(req))
               THEN Throw(r, Err("InvalidRegularPR")) /\ UNCHANGED result
               ELSE Accept(r, Unnumbered(req))
       \/ \E e \in CreateErrors :
            /\ resps' = [resps EXCEPT ![r] = Append(@, Failed(e))]
            /\ UNCHANGED <<prCount, result>>
            /\ Throw(r, e)
    /\ UNCHANGED <<issueNumber, prType, previewFile, calls,
                   cleanups, ev, tabs, files, dirExists, started, previewContent, commitVars, settingVars, issueVars>>

\* generatePR.ts:271-274: closePreviewTabs after the creation; then the stat
\* of cleanupPreviewFiles is sent.
OkClose(r) ==
    /\ pc[r] = "ok_close"
    /\ tabs' = TabsAfterClose(tabs)
    /\ Goto(r, "ok_stat")
    /\ UNCHANGED <<issueNumber, prType, previewFile, calls, resps, result, msgs,
                   cleanups, ev, files, dirExists, prCount, started, previewContent, commitVars, settingVars, issueVars>>

\* generatePR.ts:276-280: cleanupPreviewFiles has returned; the success
\* notification is shown.
Notify(r) ==
    /\ cleanups' = [cleanups EXCEPT ![r] = @ + 1]
    /\ Show(r, "Created", result[r].number)
    /\ Goto(r, "notify")

\* generatePR.ts:274 (21)
OkStat(r) ==
    /\ pc[r] = "ok_stat"
    /\ IF StatFinds(dirExists)
         THEN Goto(r, "ok_delete") /\ UNCHANGED <<msgs, cleanups>>
         ELSE Notify(r)
    /\ UNCHANGED <<issueNumber, prType, previewFile, calls, resps, result,
                   ev, envVars, started, previewContent, commitVars, settingVars, issueVars>>

\* generatePR.ts:274 (23)
OkDelete(r) ==
    /\ pc[r] = "ok_delete"
    /\ files' = FilesAfterDelete(files)
    /\ dirExists' = FALSE
    /\ Notify(r)
    /\ UNCHANGED <<issueNumber, prType, previewFile, calls, resps, result,
                   ev, tabs, prCount, started, previewContent, commitVars, settingVars, issueVars>>

\* generatePR.ts:277-286: the user answers the success notification.
NotifyAnswer(r) ==
    /\ pc[r] = "notify"
    /\ \/ Goto(r, "openExternal") /\ UNCHANGED previewFile
       \/ /\ previewFile' = [previewFile EXCEPT ![r] = ClearedPreviewFile]
          /\ Finally(r, ClearedPreviewFile)
    /\ UNCHANGED <<issueNumber, prType, calls, resps, result, msgs,
                   cleanups, ev, envVars, started, previewContent, commitVars, settingVars, issueVars>>

\* generatePR.ts:283-286: the browser was asked to open the URL.
OpenExternal(r) ==
    /\ pc[r] = "openExternal"
    /\ previewFile' = [previewFile EXCEPT ![r] = ClearedPreviewFile]
    /\ Finally(r, ClearedPreviewFile)
    /\ UNCHANGED <<issueNumber, prType, calls, resps, result, msgs,
                   cleanups, ev, envVars, started, previewContent, commitVars, settingVars, issueVars>>

\* generatePR.ts:312-315: closePreviewTabs in the finally block.
FinClose(r) ==
    /\ pc[r] = "fin_close"
    /\ tabs' = TabsAfterClose(tabs)
    /\ Goto(r, "fin_stat")
    /\ UNCHANGED <<issueNumber, prType, previewFile, calls, resps, result, msgs,
                   cleanups, ev, files, dirExists, prCount, started, previewContent, commitVars, settingVars, issueVars>>

\* generatePR.ts:315 (21)
FinStat(r) ==
    /\ pc[r] = "fin_stat"
    /\ IF StatFinds(dirExists)
         THEN Goto(r, "fin_delete") /\ UNCHANGED cleanups
         ELSE Goto(r, "done") /\ cleanups' = [cleanups EXCEPT ![r] = @ + 1]
    /\ UNCHANGED <<issueNumber, prType, previewFile, calls, resps, result, msgs,
                   ev, envVars, started, previewContent, commitVars, settingVars, issueVars>>

\* generatePR.ts:315 (23)
FinDelete(r) ==
    /\ pc[r] = "fin_delete"
    /\ files' = FilesAfterDelete(files)
    /\ dirExists' = FALSE
    /\ Goto(r, "done")
    /\ cleanups' = [cleanups EXCEPT ![r] = @ + 1]
    /\ UNCHANGED <<issueNumber, prType, previewFile, calls, resps, result, msgs,
                   ev, tabs, prCount, started, previewContent, commitVars, settingVars, issueVars>>

\* One step of run r: the resumption of generatePR at the await it is suspended at.
Step(r) ==
    \/ Invoke(r)
    \/ SelectBranches(r)
    \/ InitGitHub(r)
    \/ GetIssues(r)
    \/ PickIssue(r)
    \/ GitInit(r)
    \/ FindTemplates(r)
    \/ FetchDiff(r)
    \/ OpenAIInit(r)
    \/ Generate(r)
    \/ SmpStat(r)
    \/ SmpDelete(r)
    \/ SmpMkdir(r)
    \/ SmpClose(r)
    \/ SmpWrite(r)
    \/ SmpOpen(r)
    \/ SmpShow(r)
    \/ SelectPRType(r)
    \/ Validate(r)
    \/ Create1(r)
    \/ FallbackNotify(r)
    \/ Create2(r)
    \/ OkClose(r)
    \/ OkStat(r)
    \/ OkDelete(r)
    \/ NotifyAnswer(r)
    \/ OpenExternal(r)
    \/ FinClose(r)
    \/ FinStat(r)
    \/ FinDelete(r)

\* The program: up to MaxRuns runs of generatePR, interleaved at their awaits.
Next == \E r \in Runs : Step(r)

Spec == Init /\ [][Next]_vars

-----------------------------------------------------------------------------
(* One run among any number of others.  The run FirstRun is followed step  *)
(* by step; the other runs are represented by what each of their steps can *)
(* do to the state all runs share: the preview tabs, PREVIEW_DIR and the   *)
(* repository host.  Every step of generatePR that touches that state is   *)
(* one of the steps below, so what holds of FirstRun here holds of a run   *)
(* interleaved with other runs in any number and at any of their awaits.   *)

FirstRun == CHOOSE r \in Runs : \A q \in Runs : r <= q
OtherRuns == Runs \ {FirstRun}

\* generatePR.ts:61, 273, 314: another run calls closePreviewTabs.
OtherCloses ==
    /\ tabs' = TabsAfterClose(tabs)
    /\ UNCHANGED <<files, dirExists, prCount>>

\* generatePR.ts:23 (from 54, 274, 315): another run's cleanupPreviewFiles deletes.
OtherDeletes ==
    /\ files' = FilesAfterDelete(files)
    /\ dirExists' = FALSE
    /\ UNCHANGED <<tabs, prCount>>

\* generatePR.ts:55: another run creates PREVIEW_DIR.
OtherMkdir ==
    /\ dirExists' = TRUE
    /\ UNCHANGED <<tabs, files, prCount>>

\* generatePR.ts:65: another run writes its preview file.
OtherWrites(o) ==
    /\ files' = files \cup {o}
    /\ dirExists' = TRUE
    /\ UNCHANGED <<tabs, prCount>>

\* generatePR.ts:71: another run opens its preview.
OtherShows(o) ==
    /\ tabs' = tabs \cup {o}
    /\ UNCHANGED <<files, dirExists, prCount>>

\* generatePR.ts:226, 250: another run's pull request is created.
OtherCreates ==
    /\ prCount < MaxRuns
    /\ prCount' = prCount + 1
    /\ UNCHANGED <<tabs, files, dirExists>>

Interfere ==
    /\ \/ OtherCloses
       \/ OtherDeletes
       \/ OtherMkdir
       \/ \E o \in OtherRuns : OtherWrites(o)
       \/ \E o \in OtherRuns : OtherShows(o)
       \/ OtherCreates
    /\ UNCHANGED <<runVars, started, commitVars, settingVars, issueVars>>

NextRun == Step(FirstRun) \/ Interfere

RunSpec == Init /\ [][NextRun]_vars

-----------------------------------------------------------------------------
(* One run among others, in an editor where the user opens tabs as well.   *)

UserOpens ==
    /\ \E t \in UserTabs \ tabs : tabs' = tabs \cup {t}
    /\ UNCHANGED <<files, dirExists, prCount>>
    /\ UNCHANGED <<runVars, started, commitVars, settingVars, issueVars>>

NextTabs == NextRun \/ UserOpens

TabsSpec == Init /\ [][NextTabs]_vars

-----------------------------------------------------------------------------
(* Failures of the teardown and notification steps.  In Spec and RunSpec    *)
(* closePreviewTabs, the recursive delete, the information messages and     *)
(* openExternal always succeed; here each of them can reject as well.       *)

\* closePreviewTabs rejects after closing none or all of the tabs.
TabsAfterFailedClose(ts) == {ts, TabsAfterClose(ts)}

\* generatePR.ts:61, 74-77: closePreviewTabs rejects inside showMarkdownPreview.
SmpCloseFails(r) ==
    /\ pc[r] = "smp_close"
    /\ SmpFail(r)
    /\ UNCHANGED <<issueNumber, prType, previewFile, calls, resps, result,
                   cleanups, envVars, started, previewContent, commitVars, settingVars, issueVars>>

\* generatePR.ts:23-30 (from 54): the delete rejects; cleanupPreviewFiles
\* swallows the error and returns.
SmpDeleteFails(r) ==
    /\ pc[r] = "smp_delete"
    /\ Goto(r, "smp_mkdir")
    /\ UNCHANGED <<issueNumber, prType, previewFile, calls, resps, result, msgs,
                   cleanups, ev, envVars, started, previewContent, commitVars, settingVars, issueVars>>

\* generatePR.ts:246, 294-309: the draft-fallback information message rejects.
FallbackNotifyFails(r) ==
    /\ pc[r] = "fallbackNotify"
    /\ Note(r, "notifyFailed")
    /\ Throw(r, Err("Other"))
    /\ UNCHANGED <<issueNumber, prType, previewFile, calls, resps, result,
                   cleanups, envVars, started, previewContent, commitVars, settingVars, issueVars>>

\* generatePR.ts:273, 294-309: closePreviewTabs rejects after the creation.
OkCloseFails(r) ==
    /\ pc[r] = "ok_close"
    /\ tabs' \in TabsAfterFailedClose(tabs)
    /\ Note(r, "closeFailed")
    /\ Throw(r, Err("Other"))
    /\ UNCHANGED <<issueNumber, prType, previewFile, calls, resps, result,
                   cleanups, files, dirExists, prCount, started, previewContent, commitVars, settingVars, issueVars>>

\* generatePR.ts:23-30 (from 274): the delete rejects and is swallowed.
OkDeleteFails(r) ==
    /\ pc[r] = "ok_delete"
    /\ Notify(r)
    /\ UNCHANGED <<issueNumber, prType, previewFile, calls, resps, result,
                   ev, envVars, started, previewContent, commitVars, settingVars, issueVars>>

\* generatePR.ts:277-281, 294-309: the success notification rejects.
NotifyFails(r) ==
    /\ pc[r] = "notify"
    /\ Note(r, "notifyFailed")
    /\ Throw(r, Err("Other"))
    /\ UNCHANGED <<issueNumber, prType, previewFile, calls, resps, result,
                   cleanups, envVars, started, previewContent, commitVars, settingVars, issueVars>>

\* generatePR.ts:283, 294-309: openExternal rejects.
OpenExternalFails(r) ==
    /\ pc[r] = "openExternal"
    /\ Note(r, "notifyFailed")
    /\ Throw(r, Err("Other"))
    /\ UNCHANGED <<issueNumber, prType, previewFile, calls, resps, result,
                   cleanups, envVars, started, previewContent, commitVars, settingVars, issueVars>>

\* generatePR.ts:313-318: closePreviewTabs rejects in the finally block; the
\* catch logs the error and cleanupPreviewFiles is skipped.  Without the
\* catch the error would leave generatePR and reject its promise.
FinCloseFails(r) ==
    /\ pc[r] = "fin_close"
    /\ tabs' \in TabsAfterFailedClose(tabs)
    /\ Note(r, "cleanupThrew")
    /\ Goto(r, IF CleanupErrorCaught THEN "done" ELSE "rejected")
    /\ UNCHANGED <<issueNumber, prType, previewFile, calls, resps, result, msgs,
                   cleanups, files, dirExists, prCount, started, previewContent, commitVars, settingVars, issueVars>>

\* generatePR.ts:23-30 (from 315): the delete rejects and is swallowed.
FinDeleteFails(r) ==
    /\ pc[r] = "fin_delete"
    /\ Goto(r, "done")
    /\ cleanups' = [cleanups EXCEPT ![r] = @ + 1]
    /\ UNCHANGED <<issueNumber, prType, previewFile, calls, resps, result, msgs,
                   ev, envVars, started, previewContent, commitVars, settingVars, issueVars>>

FaultStep(r) ==
    \/ SmpCloseFails(r)
    \/ SmpDeleteFails(r)
    \/ FallbackNotifyFails(r)
    \/ OkCloseFails(r)
    \/ OkDeleteFails(r)
    \/ NotifyFails(r)
    \/ OpenExternalFails(r)
    \/ FinCloseFails(r)
    \/ FinDeleteFails(r)

\* One run among others, with every step of it able to fail.
NextFault == NextRun \/ FaultStep(FirstRun)

FaultSpec == Init /\ [][NextFault]_vars

-----------------------------------------------------------------------------
(* The commit-message command, vscode-scm-comitter.generateMessage.  The    *)
(* handler is an async function; cpc names the await it is suspended at.   *)
(* The staged diff is represented by the set of paths it covers: it is the *)
(* empty string exactly when nothing is staged.                            *)

\* Paths that can have changes: 1..MaxPaths.
MaxPaths == 2
\* Commits the user makes while the command runs.
MaxCommits == 1

Paths == 1..MaxPaths

Text(text, of) == [text |-> text, of |-> of]

\* The completion's answer for a diff (line 170).
CommitMessage(d) == Text("generated", d)

\* KeySeenAfterWait reading the setting anew.
KeySeenAfterWaitLive(cfg, current) == current

\* Line 236: config.get on the object created at line 224.
KeySeenAfterWait(cfg, current) == cfg

\* DiffEmpty with the tests of lines 252 and 256 left out.
DiffEmptyNever(d) == FALSE

\* Lines 252 and 256: `!diff`.
DiffEmpty(d) == d = {}

\* HasChanges with the test of line 181 left out.
HasChangesAlways(changes) == TRUE

\* Line 181: `changes.length > 0`.
HasChanges(changes) == changes # {}

\* Line 182: repository.add stages the given working-tree changes.
RepoAdd(repo, changes) ==
    [repo EXCEPT !.staged = @ \cup changes, !.working = @ \ changes]

\* RepoSetInput followed by a commit of the index with that message.
RepoSetInputAndCommit(repo, message) ==
    [repo EXCEPT !.staged = {}, !.inputBox = Text("", {}), !.commits = @ + 1]

\* Line 266: repository.inputBox.value = message.
RepoSetInput(repo, message) == [repo EXCEPT !.inputBox = message]

CommitShow(shown, kind) == Append(shown, kind)

\* CommitErrorCaught without the try/catch of lines 247-274.
CommitErrorUncaught == FALSE

\* Lines 247, 268-274: the progress callback's body is one try block whose
\* catch shows the error and returns.
CommitErrorCaught == TRUE

\* Lines 268-274: what an error thrown inside the progress callback does,
\* `shown` being the messages shown so far.
CommitThrows(shown) ==
    IF CommitErrorCaught
      THEN cmsgs' = CommitShow(shown, "Error") /\ cpc' = "done"
      ELSE cmsgs' = shown /\ cpc' = "rejected"

\* An awaited call of the progress callback rejects.
CommitFails ==
    /\ CommitThrows(cmsgs)
    /\ UNCHANGED <<repository, diff, requests>>

\* Lines 265, 132-168: generateCommitMessageWithAI reads the configuration
\* anew; without a key it throws (138-140), and so does the construction of
\* the request when LANGUAGE_CONFIGS has no entry for the configured language
\* or MESSAGE_STYLES none for the style (142, 151, 159); otherwise the
\* completion request is sent.  `shown` are the messages shown so far.
StartGeneration(d, shown) ==
    \E known \in BOOLEAN :
       IF ~apiKey \/ ~known
         THEN /\ CommitThrows(shown)
              /\ UNCHANGED requests
         ELSE /\ cmsgs' = shown
              /\ requests' = Append(requests, d)
              /\ cpc' = "generate"

\* The states the command can be invoked in.
CommitInit ==
    /\ GeneratePRInit
    /\ SettingsAtRest
    /\ IssueAtRest
    /\ cpc = "idle"
    /\ repositories \in {0, 1}
    /\ repository \in [staged : SUBSET Paths, working : SUBSET Paths,
                        inputBox : {Text("", {}), Text("typed", {})}, commits : {0}]
    /\ config = FALSE
    /\ apiKey \in BOOLEAN
    /\ diff = {}
    /\ cmsgs = <<>>
    /\ requests = <<>>

\* Lines 217-249: the handler starts; with a repository and a key the first
\* staged diff is requested.
GenerateMessage ==
    /\ cpc = "idle"
    /\ IF repositories = 0
         THEN /\ cmsgs' = CommitShow(cmsgs, "NoRepository")
              /\ cpc' = "done"
              /\ UNCHANGED config
         ELSE /\ config' = apiKey
              /\ IF ~apiKey
                   THEN cmsgs' = CommitShow(cmsgs, "KeyPrompt") /\ cpc' = "prompt"
                   ELSE UNCHANGED cmsgs /\ cpc' = "diff1"
    /\ UNCHANGED <<repositories, repository, apiKey, diff, requests>>
    /\ UNCHANGED <<runVars, envVars, started, settingVars, issueVars>>

\* Lines 119-129, 229-232: the user answers the warning.
ShowSettingsPrompt ==
    /\ cpc = "prompt"
    /\ \E response \in {"Yes", "No", "dismissed"} :
          cpc' = IF response = "Yes" THEN "openSettings" ELSE "done"
    /\ UNCHANGED <<repositories, repository, config, apiKey, diff, cmsgs, requests>>
    /\ UNCHANGED <<runVars, envVars, started, settingVars, issueVars>>

\* Lines 126-127, 234: the settings editor is open; the handler waits a second.
OpenSettings ==
    /\ cpc = "openSettings"
    /\ cpc' = "wait"
    /\ UNCHANGED <<repositories, repository, config, apiKey, diff, cmsgs, requests>>
    /\ UNCHANGED <<runVars, envVars, started, settingVars, issueVars>>

\* Lines 234-249: after the wait the key is read again, from the configuration
\* object of line 224.  A WorkspaceConfiguration holds the values of the
\* moment getConfiguration was called, so it answers as it did at line 225.
WaitForSettings ==
    /\ cpc = "wait"
    /\ cpc' = IF ~KeySeenAfterWait(config, apiKey) THEN "done" ELSE "diff1"
    /\ UNCHANGED <<repositories, repository, config, apiKey, diff, cmsgs, requests>>
    /\ UNCHANGED <<runVars, envVars, started, settingVars, issueVars>>

\* Lines 249-254, 179-184: the staged diff returns; when it is empty
\* stageAllChanges adds the working-tree changes, if there are any, and the
\* staged diff is requested again.
StagedDiff ==
    /\ cpc = "diff1"
    /\ \/ /\ diff' = repository.staged
          /\ IF DiffEmpty(repository.staged)
               THEN /\ cpc' = IF HasChanges(repository.working) THEN "add" ELSE "diff2"
                    /\ UNCHANGED <<cmsgs, requests>>
               ELSE StartGeneration(repository.staged, cmsgs)
          /\ UNCHANGED repository
       \/ CommitFails
    /\ UNCHANGED <<repositories, config, apiKey>>
    /\ UNCHANGED <<runVars, envVars, started, settingVars, issueVars>>

\* Lines 182, 254: repository.add returns; the staged diff is requested again.
StageAllChanges ==
    /\ cpc = "add"
    /\ \/ /\ repository' = RepoAdd(repository, repository.working)
          /\ cpc' = "diff2"
          /\ UNCHANGED <<diff, cmsgs, requests>>
       \/ CommitFails
    /\ UNCHANGED <<repositories, config, apiKey>>
    /\ UNCHANGED <<runVars, envVars, started, settingVars, issueVars>>

\* Lines 254-265: the second staged diff returns.
StagedDiffAgain ==
    /\ cpc = "diff2"
    /\ \/ /\ diff' = repository.staged
          /\ IF DiffEmpty(repository.staged)
               THEN /\ cmsgs' = CommitShow(cmsgs, "NoChanges")
                    /\ cpc' = "done"
                    /\ UNCHANGED requests
               ELSE StartGeneration(repository.staged, CommitShow(cmsgs, "AutoStaged"))
          /\ UNCHANGED repository
       \/ CommitFails
    /\ UNCHANGED <<repositories, config, apiKey>>
    /\ UNCHANGED <<runVars, envVars, started, settingVars, issueVars>>

\* Lines 145-176, 265-266: the completion request returns.
GenerateCommitMessageWithAI ==
    /\ cpc = "generate"
    /\ \/ /\ repository' = RepoSetInput(repository, CommitMessage(diff))
          /\ cpc' = "done"
          /\ UNCHANGED <<diff, cmsgs, requests>>
       \/ CommitFails
    /\ UNCHANGED <<repositories, config, apiKey>>
    /\ UNCHANGED <<runVars, envVars, started, settingVars, issueVars>>

\* The user commits the index in the Source Control view; the input box is
\* cleared by the editor.
UserCommits ==
    /\ repository.staged # {}
    /\ repository.commits < MaxCommits
    /\ repository' = [repository EXCEPT !.staged = {}, !.inputBox = Text("", {}),
                                         !.commits = @ + 1]
    /\ UNCHANGED <<cpc, repositories, config, apiKey, diff, cmsgs, requests>>
    /\ UNCHANGED <<runVars, envVars, started, settingVars, issueVars>>

\* The user enters the API key in the settings editor.
UserConfigures ==
    /\ ~apiKey
    /\ apiKey' = TRUE
    /\ UNCHANGED <<cpc, repositories, repository, config, diff, cmsgs, requests>>
    /\ UNCHANGED <<runVars, envVars, started, settingVars, issueVars>>

\* The user removes the API key from the settings.
UserRemovesKey ==
    /\ apiKey
    /\ apiKey' = FALSE
    /\ UNCHANGED <<cpc, repositories, repository, config, diff, cmsgs, requests>>
    /\ UNCHANGED <<runVars, envVars, started, settingVars, issueVars>>

CommitNext ==
    \/ GenerateMessage
    \/ ShowSettingsPrompt
    \/ OpenSettings
    \/ WaitForSettings
    \/ StagedDiff
    \/ StageAllChanges
    \/ StagedDiffAgain
    \/ GenerateCommitMessageWithAI
    \/ UserCommits
    \/ UserConfigures
    \/ UserRemovesKey

CommitSpec == CommitInit /\ [][CommitNext]_vars

-----------------------------------------------------------------------------
(* The language setting: activation (extension.ts:22-31), the language      *)
(* command (54-72) and the read of the setting in generatePR (138).         *)

Languages ==
    {"english", "french", "german", "italian", "japanese", "chinese", "korean",
     "vietnamese", "russian"}

\* extension.ts:27: the value activate stores when none is set.
ActivationDefault == "english"

\* generatePR.ts:138: get('language') || 'english'.
LanguageOrDefault(stored) == IF stored = "unset" THEN "english" ELSE stored

\* The editor starts with the setting unset or chosen by the user beforehand.
SettingsInit ==
    /\ GeneratePRInit
    /\ CommitAtRest
    /\ IssueAtRest
    /\ language \in {"unset"} \cup Languages
    /\ configured = (language # "unset")
    /\ activated = FALSE
    /\ prLanguage = "none"

\* extension.ts:22-28
Activate ==
    /\ ~activated
    /\ activated' = TRUE
    /\ language' = IF language = "unset" THEN ActivationDefault ELSE language
    /\ UNCHANGED <<configured, prLanguage>>
    /\ UNCHANGED <<runVars, envVars, started, commitVars, issueVars>>

\* extension.ts:54-72: otak-committer.changeLanguage with a language picked.
ChangeLanguage ==
    /\ activated
    /\ \E selected \in Languages : language' = selected
    /\ configured' = TRUE
    /\ UNCHANGED <<activated, prLanguage>>
    /\ UNCHANGED <<runVars, envVars, started, commitVars, issueVars>>

\* generatePR.ts:138: a generatePR run reads the language for the generation.
ReadLanguage ==
    /\ activated
    /\ prLanguage' = LanguageOrDefault(language)
    /\ UNCHANGED <<language, configured, activated>>
    /\ UNCHANGED <<runVars, envVars, started, commitVars, issueVars>>

SettingsNext ==
    \/ Activate
    \/ ChangeLanguage
    \/ ReadLanguage

SettingsSpec == SettingsInit /\ [][SettingsNext]_vars

-----------------------------------------------------------------------------
(* IssueGeneratorService.generatePreview (part_002:172-195) with            *)
(* generateTitle (66-79).  A text is the sequence of its characters; the    *)
(* characters of the description are numbered by their position, 0 is a    *)
(* character of a generated text.                                          *)

\* Longest description, in characters.
MaxDescription == 51
\* Lines 74 and 77: slice(0, 50).
TitleLimit == 50

Descriptions == {[i \in 1..n |-> i] : n \in 0..MaxDescription}

\* What createChatCompletion can do: throw, resolve with nothing, resolve
\* with a text.
Completions ==
    {[threw |-> TRUE, text |-> <<>>],
     [threw |-> FALSE, text |-> <<>>],
     [threw |-> FALSE, text |-> <<0>>]}

\* String.prototype.slice(0, n)
Slice(text, n) == SubSeq(text, 1, IF Len(text) < n THEN Len(text) ELSE n)

\* BodyMissing with the test of line 188 left out.
BodyMissingIgnored(body) == FALSE

\* Line 188: `!body`.
BodyMissing(body) == body = <<>>

\* Line 74: title || description.slice(0, 50).
TitleOrSlice(title, description) ==
    IF title # <<>> THEN title ELSE Slice(description, TitleLimit)

\* BaseService.showError: the message is shown to the user.
ShowError(shown, message) == Append(shown, message)

IssueInit ==
    /\ GeneratePRInit
    /\ CommitAtRest
    /\ SettingsAtRest
    /\ ipc = "idle"
    /\ params \in [description : Descriptions, files : BOOLEAN]
    /\ irequests = <<>>
    /\ iresponses = <<>>
    /\ ishown = <<>>
    /\ preview = [title |-> <<>>, body |-> <<>>]
    /\ rejection = "none"

\* Lines 182-186: the body completion is requested.
RequestBody ==
    /\ irequests' = Append(irequests, "body")
    /\ ipc' = "body"

\* Lines 172-186: generatePreview is called; files given are analysed first.
GeneratePreview ==
    /\ ipc = "idle"
    /\ IF params.files
         THEN ipc' = "analyze" /\ UNCHANGED irequests
         ELSE RequestBody
    /\ UNCHANGED <<params, iresponses, ishown, preview, rejection>>
    /\ UNCHANGED <<runVars, envVars, started, commitVars, settingVars>>

\* Lines 80-112, 175-186: analyzeFiles returns (a file that cannot be read
\* is recorded with its error, lines 104-109).
AnalyzeFiles ==
    /\ ipc = "analyze"
    /\ RequestBody
    /\ UNCHANGED <<params, iresponses, ishown, preview, rejection>>
    /\ UNCHANGED <<runVars, envVars, started, commitVars, settingVars>>

\* Lines 182-194, 67-72: the body completion returns; a usable body is kept
\* and the title completion requested, anything else ends in the catch of
\* line 192.
BodyCompletion ==
    /\ ipc = "body"
    /\ \E body \in Completions :
          /\ iresponses' = Append(iresponses, body)
          /\ IF body.threw \/ BodyMissing(body.text)
               THEN /\ rejection' = "Failed to generate preview"
                    /\ ipc' = "rejected"
                    /\ UNCHANGED <<irequests, preview>>
               ELSE /\ preview' = [preview EXCEPT !.body = body.text]
                    /\ irequests' = Append(irequests, "title")
                    /\ ipc' = "title"
                    /\ UNCHANGED rejection
    /\ UNCHANGED <<params, ishown>>
    /\ UNCHANGED <<runVars, envVars, started, commitVars, settingVars>>

\* Lines 68-78, 189-191: the title completion returns; generatePreview
\* resolves with the title and the body.
TitleCompletion ==
    /\ ipc = "title"
    /\ \E title \in Completions :
          /\ iresponses' = Append(iresponses, title)
          /\ IF title.threw
               THEN /\ ishown' = ShowError(ishown, "Failed to generate title")
                    /\ preview' = [preview EXCEPT
                                      !.title = Slice(params.description, TitleLimit)]
               ELSE /\ preview' = [preview EXCEPT
                                      !.title = TitleOrSlice(title.text, params.description)]
                    /\ UNCHANGED ishown
    /\ ipc' = "returned"
    /\ UNCHANGED <<params, irequests, rejection>>
    /\ UNCHANGED <<runVars, envVars, started, commitVars, settingVars>>

IssueNext ==
    \/ GeneratePreview
    \/ AnalyzeFiles
    \/ BodyCompletion
    \/ TitleCompletion

IssueSpec == IssueInit /\ [][IssueNext]_vars

-----------------------------------------------------------------------------
(* Properties *)

Finished(r) == pc[r] = "done"
Running(r) == pc[r] \notin {"idle", "done"}
Kinds(r) == {msgs[r][i].kind : i \in 1..Len(msgs[r])}
DraftUnsupported == Failed(Err("DraftUnsupported"))
IsPullRequest(resp) == resp.kind = "record" /\ resp.number # 0

\* C1: a run whose Validate diff has an empty file list sends no
\* createPullRequest request, and the one message it shows is the 'No changes
\* found between selected branches' message, not 'Failed to generate PR'.
C1_EmptyDiffNeverCreates ==
    \A r \in Runs :
        "validateEmpty" \in ev[r] =>
            /\ calls[r] = <<>>
            /\ msgs[r] = <<Msg("NoChanges", 0)>>

C1_Witness ==
    \E r \in Runs : Finished(r) /\ "validateEmpty" \in ev[r]

\* C2: a finished run that attempted a preview has left no preview tab of its
\* own open and no preview file of its own in the preview directory.
C2_CleanupOnEveryExit ==
    \A r \in Runs :
        Finished(r) /\ "wrote" \in ev[r] => r \notin tabs /\ r \notin files

\* C3: a finished run that obtained a pull request (from the first or from the
\* fallback request) has completed the cleanup pair exactly once and has no
\* preview tab or preview file of its own left.
C3_CleanupOnceOnSuccess ==
    \A r \in Runs :
        Finished(r) /\ result[r].number # 0 =>
            /\ cleanups[r] = 1
            /\ r \notin tabs
            /\ r \notin files

C3_Witness ==
    \E r \in Runs :
        /\ Finished(r)
        /\ result[r].number # 0
        /\ Len(calls[r]) = 2
        /\ "wrote" \in ev[r]

\* C4: a run in which the user cancelled the branch selection or the PR-type
\* selection sends no createPullRequest request; when it has finished, no
\* preview tab or file of the run remains, and after a cancelled PR-type
\* selection the cleanup pair has run.
C4_CancelCreatesNothing ==
    \A r \in Runs :
        ev[r] \cap {"cancelBranches", "cancelPRType"} # {} =>
            /\ calls[r] = <<>>
            /\ Finished(r) => r \notin tabs /\ r \notin files
            /\ Finished(r) /\ "cancelPRType" \in ev[r] => cleanups[r] = 1

C4_Witness ==
    \E r \in Runs : Finished(r) /\ "cancelPRType" \in ev[r] /\ "shown" \in ev[r]

\* C5: when the first request was a draft request and failed with the
\* draft-unsupported error, the finished run has sent exactly one more request,
\* equal to the first except for draft = FALSE, and its outcome is that of the
\* second request: the record reported is the second response's record.
C5_FallbackIsSameRequest ==
    \A r \in Runs :
        /\ Finished(r)
        /\ Len(resps[r]) >= 1
        /\ calls[r][1].draft
        /\ resps[r][1] = DraftUnsupported
        => /\ Len(calls[r]) = 2
           /\ Len(resps[r]) = 2
           /\ calls[r][2] = [calls[r][1] EXCEPT !.draft = FALSE]
           /\ IF IsPullRequest(resps[r][2])
                THEN /\ result[r].number = resps[r][2].number
                     /\ msgs[r][Len(msgs[r])] = Msg("Created", resps[r][2].number)
                ELSE /\ result[r] = NoRecord
                     /\ "Created" \notin Kinds(r)

C5_Witness ==
    \E r \in Runs :
        /\ Finished(r)
        /\ Len(resps[r]) = 2
        /\ resps[r][1] = DraftUnsupported
        /\ IsPullRequest(resps[r][2])
        /\ issueNumber[r] # 0

\* C6: a run sends at most two createPullRequest requests, the second only
\* after a draft request failed with the draft-unsupported error; after any
\* other error of the first request, or any error of the second, the run is
\* in its finally block or finished and sends nothing more.
Aborting(r) == pc[r] \in {"fin_close", "fin_stat", "fin_delete", "done"}

C6_OnlyTheDraftFallbackRetries ==
    \A r \in Runs :
        /\ Len(calls[r]) <= 2
        /\ Len(calls[r]) = 2 => calls[r][1].draft /\ resps[r][1] = DraftUnsupported
        /\ /\ Len(resps[r]) >= 1
           /\ resps[r][1].kind = "error"
           /\ ~(calls[r][1].draft /\ resps[r][1] = DraftUnsupported)
           => Len(calls[r]) = 1 /\ Aborting(r)
        /\ Len(resps[r]) = 2 /\ resps[r][2].kind = "error" => Aborting(r)

C6_Witness ==
    \E r \in Runs :
        /\ Finished(r)
        /\ Len(calls[r]) = 1
        /\ ~calls[r][1].draft
        /\ resps[r] = <<DraftUnsupported>>

\* C7: a run sends a createPullRequest request only after its preview was
\* shown; when showMarkdownPreview fails the run shows 'Failed to show
\* preview', sends no request and ends.
C7_NoCreationWithoutPreview ==
    \A r \in Runs :
        /\ calls[r] # <<>> => "shown" \in ev[r]
        /\ "previewFailed" \in ev[r] =>
              /\ calls[r] = <<>>
              /\ msgs[r] = <<Msg("PreviewFailed", 0)>>
              /\ Finished(r)

C7_Witness ==
    \E r \in Runs : "previewFailed" \in ev[r] /\ "wrote" \in ev[r]

\* C8: at most one preview tab is open.
C8_SinglePreview == Cardinality(tabs) <= 1

\* C9: the preview directory holds at most one preview file.
C9_SinglePreviewFile == Cardinality(files) <= 1

\* C10: at most one generatePR run is in progress.
C10_SingleFlow == Cardinality({r \in Runs : Running(r)}) <= 1

\* C11: a step that closes the preview tab, or deletes the preview file, of a
\* run that is still in progress is a step of that run itself.  (A step of run
\* o changes pc[o]; the steps of other runs leave it unchanged.)
C11_PreviewOwnedByItsRun ==
    [][\A o \in Runs :
          /\ Running(o)
          /\ \/ o \in tabs /\ o \notin tabs'
             \/ o \in files /\ o \notin files'
          => pc'[o] # pc[o]]_vars

\* C12: a creation request (first or fallback) answered by a record without a
\* number is the run's last request; the run is then in its finally block or
\* finished, its last message is the 'Failed to generate PR' error, and it
\* never shows the success notification (which carries 'Open in Browser') nor
\* waits for its answer.
C12_NoNumberNoSuccess ==
    \A r \in Runs : \A i \in 1..Len(resps[r]) :
        resps[r][i].kind = "record" /\ resps[r][i].number = 0 =>
            /\ i = Len(calls[r])
            /\ Aborting(r)
            /\ msgs[r][Len(msgs[r])] = Msg("Failed", 0)
            /\ "Created" \notin Kinds(r)

C12_Witness ==
    \E r \in Runs :
        /\ Finished(r)
        /\ Len(resps[r]) = 2
        /\ resps[r][2].kind = "record"
        /\ resps[r][2].number = 0

\* C13: the issue quick pick is shown only to a run whose getIssues returned
\* at least one issue.  A run whose list was empty, and a run whose user
\* dismissed the quick pick, goes on to GitService.initialize (the step before
\* the diff retrieval) without a message and without an issue number, and
\* every request it sends later carries no issue number.
C13_IssueSelectionOptional ==
    [][\A r \in Runs :
          /\ pc'[r] = "pickIssue" => "noIssues" \notin ev'[r]
          /\ pc[r] = "getIssues" /\ "noIssues" \in ev'[r] =>
                pc'[r] = "gitInit" /\ issueNumber'[r] = 0 /\ msgs'[r] = msgs[r]
          /\ pc[r] = "pickIssue" /\ pc'[r] # "pickIssue" /\ issueNumber'[r] = 0 =>
                pc'[r] = "gitInit" /\ msgs'[r] = msgs[r]
          /\ "noIssues" \in ev'[r] =>
                /\ issueNumber'[r] = 0
                /\ \A i \in 1..Len(calls'[r]) : calls'[r][i].issueNumber = 0]_vars

C13_Witness ==
    \E r \in Runs : "noIssues" \in ev[r] /\ "shown" \in ev[r] /\ Len(calls[r]) = 1

\* C14: the steps of one run are sequential.  A run that has sent a
\* createPullRequest request is past its Validate step, whose diff was not
\* empty; at most one of its requests is unanswered at any time; and the
\* fallback request exists only once the first request has been answered
\* with an error.
UpToValidate ==
    {"idle", "selectBranches", "initGitHub", "getIssues", "pickIssue", "gitInit",
     "findTemplates", "fetchDiff", "openaiInit", "generate", "smp_stat",
     "smp_delete", "smp_mkdir", "smp_close", "smp_write", "smp_open", "smp_show",
     "selectPRType", "validate"}

C14_StepsInSequence ==
    \A r \in Runs :
        /\ calls[r] # <<>> => pc[r] \notin UpToValidate /\ "validateEmpty" \notin ev[r]
        /\ Len(resps[r]) <= Len(calls[r])
        /\ Len(calls[r]) <= Len(resps[r]) + 1
        /\ Len(calls[r]) < Len(resps[r]) + 1 => pc[r] \notin {"create1", "create2"}
        /\ Len(calls[r]) = 2 => Len(resps[r]) >= 1 /\ resps[r][1].kind = "error"

C14_Witness ==
    \E r \in Runs : pc[r] = "create2" /\ Len(calls[r]) = 2 /\ Len(resps[r]) = 1

\* C15: a run whose content generation failed (the completion threw, returned
\* nothing, or the completion service could not be initialised) has finished
\* with exactly one message, the one for that failure, and has written no
\* preview file, shown no preview and sent no createPullRequest request.
GenerationFailures == {"completionThrew", "completionEmpty", "noCompletionService"}

C15_GenerationFailureAborts ==
    \A r \in Runs :
        ev[r] \cap GenerationFailures # {} =>
            /\ Finished(r)
            /\ Len(msgs[r]) = 1
            /\ msgs[r][1].kind =
                  (IF "completionThrew" \in ev[r] THEN "GenError"
                   ELSE IF "completionEmpty" \in ev[r] THEN "GenFailed"
                   ELSE "ConfigurePrompt")
            /\ ev[r] \cap {"wrote", "shown"} = {}
            /\ r \notin files
            /\ r \notin tabs
            /\ calls[r] = <<>>

C15_Witness ==
    \E r \in Runs : "completionEmpty" \in ev[r] /\ Finished(r)

\* The messages that end a run: the success notification and the error
\* messages of generatePR.  The draft-fallback information message and a
\* service's own prompt are not among them.
TerminalKinds == {"Created", "Failed", "NoChanges", "GenFailed", "GenError", "PreviewFailed"}
TerminalMessages(r) == {i \in 1..Len(msgs[r]) : msgs[r][i].kind \in TerminalKinds}
Cancels == {"cancelBranches", "cancelPRType"}
ServiceFailures == {"noGitHubClient", "noGitService", "noCompletionService"}

C17_CancelIsSilent ==
    \A r \in Runs :
        ev[r] \cap Cancels # {} => Aborting(r) /\ msgs[r] = <<>>

C17_Witness ==
    \E r \in Runs : Finished(r) /\ "cancelPRType" \in ev[r] /\ cleanups[r] = 1

\* C18: whatever step fails, no error leaves generatePR: no run ever ends
\* with its promise rejected, and a run in which a teardown or notification
\* step failed is in its finally block or finished.
TeardownFailures == {"closeFailed", "notifyFailed", "cleanupThrew"}

C18_NoErrorEscapes ==
    \A r \in Runs :
        /\ pc[r] # "rejected"
        /\ ev[r] \cap TeardownFailures # {} => Aborting(r)

C18_Witness ==
    \E r \in Runs :
        /\ Finished(r)
        /\ {"notifyFailed", "cleanupThrew"} \subseteq ev[r]
        /\ result[r].number # 0

\* C19: when the first staged diff comes back empty the command stages the
\* working-tree changes (if any) and fetches the staged diff again, sending no
\* completion request; when the second staged diff comes back empty as well
\* the command shows 'No changes to commit' and ends without sending a
\* completion request and without writing the input box.  No completion
\* request is ever sent for an empty diff.
C19_EmptyDiffNoRequest ==
    [][/\ /\ cpc = "diff1"
          /\ cpc' # "diff1"
          /\ repository.staged = {}
          /\ cmsgs' # Append(cmsgs, "Error")
          => /\ cpc' = (IF repository.working # {} THEN "add" ELSE "diff2")
             /\ requests' = requests
             /\ cmsgs' = cmsgs
       /\ /\ cpc = "add"
          /\ cpc' # "add"
          /\ cmsgs' # Append(cmsgs, "Error")
          => /\ cpc' = "diff2"
             /\ repository'.staged = repository.staged \cup repository.working
       /\ /\ cpc = "diff2"
          /\ cpc' # "diff2"
          /\ repository.staged = {}
          /\ cmsgs' # Append(cmsgs, "Error")
          => /\ cmsgs' = Append(cmsgs, "NoChanges")
             /\ cpc' = "done"
             /\ requests' = requests
             /\ repository' = repository
       /\ \A i \in 1..Len(requests') : requests'[i] # {}]_vars

C19_Witness ==
    /\ cpc = "done"
    /\ cmsgs = <<"NoChanges">>
    /\ requests = <<>>
    /\ repository.inputBox = Text("typed", {})

\* C20: no step of the command commits: the number of commits changes only
\* in steps that leave the command where it is (the user's).  A step of the
\* command changes the repository in one of two ways: repository.add moves
\* the working-tree changes into the index, or the generated message is
\* written into the input box; nothing else changes.
C20_NeverCommits ==
    [][cpc' # cpc =>
          /\ repository'.commits = repository.commits
          /\ \/ repository' = repository
             \/ /\ cpc = "add"
                /\ repository' = [repository EXCEPT
                                     !.staged = repository.staged \cup repository.working,
                                     !.working = {}]
             \/ /\ cpc = "generate"
                /\ repository' = [repository EXCEPT !.inputBox = Text("generated", diff)]]_vars

C20_Witness ==
    /\ cpc = "done"
    /\ repository.inputBox.text = "generated"
    /\ repository.commits = 0
    /\ repository.staged # {}
    /\ repository.working = {}
    /\ cmsgs = <<"AutoStaged">>

\* C21: with an issue N selected, the previewed content and the body of every
\* createPullRequest request of the run end with the 'Resolves' line for N;
\* without an issue neither has one; and the previewed content is the title,
\* the rule and exactly the body that is sent.
EndsWithResolves(text, n) ==
    /\ Len(text) >= 1
    /\ text[Len(text)] = <<"Resolves", n>>

HasResolves(text) == \E i \in 1..Len(text) : text[i][1] = "Resolves"

C21_PublishedBodyIsPreviewedBody ==
    \A r \in Runs :
        /\ previewContent[r] # <<>> =>
              IF issueNumber[r] # 0
                THEN EndsWithResolves(previewContent[r], issueNumber[r])
                ELSE ~HasResolves(previewContent[r])
        /\ \A i \in 1..Len(calls[r]) :
              /\ IF issueNumber[r] # 0
                   THEN EndsWithResolves(calls[r][i].body, issueNumber[r])
                   ELSE ~HasResolves(calls[r][i].body)
              /\ previewContent[r] = calls[r][i].title \o << <<"---", 0>> >> \o calls[r][i].body

C21_Witness ==
    \E r \in Runs :
        /\ Len(calls[r]) = 2
        /\ issueNumber[r] # 0
        /\ "shown" \in ev[r]
        /\ pc[r] = "create2"

\* C22: the step in which the user cancels the branch selection ends the run
\* and changes nothing else: no message, no preview tab or file touched.  A
\* run cancelled there has sent no issue-list, diff, completion or creation
\* request, has built no preview and has run no cleanup.
C22_BranchCancelHasNoEffects ==
    [][\A r \in Runs :
          "cancelBranches" \in ev'[r] =>
              /\ pc'[r] = "done"
              /\ ev'[r] = {"cancelBranches"}
              /\ msgs'[r] = <<>>
              /\ calls'[r] = <<>>
              /\ previewContent'[r] = <<>>
              /\ ~previewFile'[r]
              /\ cleanups'[r] = 0
              /\ issueNumber'[r] = 0
              /\ pc[r] # "done" => envVars' = envVars]_vars

C22_Witness ==
    \E r \in Runs :
        /\ Finished(r)
        /\ "cancelBranches" \in ev[r]
        /\ tabs # {}
        /\ files # {}

\* C23: a run whose first diff has an empty file list goes on, without a
\* message, to the initialisation of the completion service; the 'No changes
\* found' message is shown only by a run whose Validate diff was empty.
C23_EmptyFirstDiffNotFatal ==
    [][\A r \in Runs :
          /\ pc[r] = "fetchDiff" /\ "firstDiffEmpty" \in ev'[r] =>
                pc'[r] = "openaiInit" /\ msgs'[r] = msgs[r]
          /\ "NoChanges" \in {msgs'[r][i].kind : i \in 1..Len(msgs'[r])} =>
                "validateEmpty" \in ev'[r]]_vars

C23_Witness ==
    \E r \in Runs :
        /\ "firstDiffEmpty" \in ev[r]
        /\ "shown" \in ev[r]
        /\ "validateEmpty" \in ev[r]
        /\ Finished(r)

C25_DefaultLanguageIsJapanese ==
    ~configured =>
        /\ activated => language = "japanese"
        /\ prLanguage # "none" => prLanguage = "japanese"

\* C26: a finished run one of whose createPullRequest requests returned a
\* record with a number has shown the success notification for that number
\* as its last message and has shown no 'Failed to generate PR' error, also
\* when closing the preview tabs or deleting the preview files failed.
C26_CreatedIsReportedAsSuccess ==
    \A r \in Runs : \A i \in 1..Len(resps[r]) :
        Finished(r) /\ IsPullRequest(resps[r][i]) /\ "notifyFailed" \notin ev[r] =>
            /\ msgs[r][Len(msgs[r])] = Msg("Created", resps[r][i].number)
            /\ "Failed" \notin Kinds(r)

\* C27: repository.add is called only after an empty first staged diff and
\* with working-tree changes to stage, and no step of the command other than
\* the return of that call changes the index.
C27_StagesOnlyWhenNothingStaged ==
    [][/\ cpc' = "add" /\ cpc # "add"
           => cpc = "diff1" /\ repository.staged = {} /\ repository.working # {}
       /\ cpc' # cpc /\ cpc # "add"
           => repository'.staged = repository.staged]_vars

\* The command went on to the completion with what was staged, changes in
\* the working tree left where they were.
C27_Witness ==
    /\ cpc \in {"generate", "done"}
    /\ requests # <<>>
    /\ repository.working # {}
    /\ repository.staged # {}

\* C28: a step of the commit-message command that shows an error leaves the
\* repository as it was (input box and index alike) and ends the command; a
\* completion request that returns ends with the message in the input box or
\* with an error shown; and the command never ends by rejecting.
C28_GenerationFailureIsReported ==
    [][/\ cpc' # "rejected"
       /\ cmsgs' = Append(cmsgs, "Error")
           => repository' = repository /\ cpc' = "done"
       /\ cpc = "generate" /\ cpc' # cpc /\ cmsgs' = cmsgs
           => repository'.inputBox = CommitMessage(diff)]_vars

\* The completion failed after the command had staged the changes itself:
\* the error is the last message, the changes are staged, the input box is
\* what the user had typed.
C28_Witness ==
    /\ cpc = "done"
    /\ Len(cmsgs) = 2
    /\ cmsgs[1] = "AutoStaged"
    /\ cmsgs[2] = "Error"
    /\ requests # <<>>
    /\ repository.staged # {}
    /\ repository.inputBox = Text("typed", {})

\* C29: no step closes a tab of the user's: neither the Markdown preview the
\* user opened for an unrelated document nor a text editor.
C29_OnlyOwnPreviewsClosed ==
    [][\A t \in UserTabs : t \in tabs => t \in tabs']_vars

\* C30: generatePreview asks for the body first and for the title only after
\* a usable body; a body completion that throws or is empty makes it reject
\* with 'Failed to generate preview', no title requested; once the body is
\* there it resolves whatever the title completion does, the title being the
\* first 50 characters of the description when that completion throws or is
\* empty.
FirstCharacters(text, of, n) ==
    /\ Len(text) = IF Len(of) < n THEN Len(of) ELSE n
    /\ \A i \in 1..Len(text) : text[i] = of[i]

Unusable(completion) == completion.threw \/ completion.text = <<>>

C30_BodyFirstTitleFallsBack ==
    /\ irequests \in {<<>>, <<"body">>, <<"body", "title">>}
    /\ Len(iresponses) >= 1 /\ Unusable(iresponses[1])
        => /\ ipc = "rejected"
           /\ rejection = "Failed to generate preview"
           /\ irequests = <<"body">>
    /\ Len(iresponses) >= 1 /\ ~Unusable(iresponses[1])
        => /\ ipc # "rejected"
           /\ rejection = "none"
           /\ preview.body = iresponses[1].text
    /\ Len(iresponses) = 2
        => /\ ipc = "returned"
           /\ IF Unusable(iresponses[2])
                THEN FirstCharacters(preview.title, params.description, 50)
                ELSE preview.title = iresponses[2].text

\* The title completion threw for a description longer than the title may
\* be; the preview is there.
C30_Witness ==
    /\ ipc = "returned"
    /\ iresponses[2].threw
    /\ Len(params.description) > 50
    /\ Len(preview.title) = 50
    /\ preview.body # <<>>

====
